---- MODULE Spec2Model ----
(***************************************************************************)
(* Real-time product synchronisation of Market-Bot.                        *)
(*                                                                         *)
(* Subscriber side (bot/src/modules/real-time): ProductManager keeps the   *)
(* product cache and reconciles it by polling the catalog read API;        *)
(* WebSocketManager receives pushed PRODUCT_UPDATE messages and owns the   *)
(* reconnect / heartbeat / fallback-polling state.  The catalog store and  *)
(* the read API (dashboard) are the environment of the subscriber.         *)
(*                                                                         *)
(* Hub side (dashboard/lib/websocket-server.ts): the registry of           *)
(* connections and the fan-out of broadcast and broadcastToType.           *)
(*                                                                         *)
(* Durations are in milliseconds, as in the source.  Time advances in      *)
(* steps of TimeStep, which divides every period used by the program.      *)
(***************************************************************************)
EXTENDS Integers, Sequences, FiniteSets, Bags, TLC

(* ---------------------------- bounds ---------------------------------- *)
\* number of writes the catalog store accepts (its clock stops there)
MaxVersion == 2
\* number of pollForUpdates executions that may be in flight together
MaxRuns == 2
\* number of sockets connect() makes in one behaviour
MaxSockets == 3
\* number of connections the hub accepts in one behaviour
MaxClients == 3
\* number of sockets connect() makes in one behaviour of an outage
MaxRetrySockets == 6

(* ------------------------ program constants --------------------------- *)
\* ProductManager.pollForUpdates: "if (now - this.lastPollTime < 5000) return"
PollMinInterval == 5000

\* WebSocketManager.maxReconnectAttempts, WebSocketManager.reconnectDelay
maxReconnectAttempts == 5
reconnectDelay == 5000

\* granularity of the model clock
TimeStep == PollMinInterval

(* ----------------------------- data ----------------------------------- *)
Products == {"P1", "P2"}

\* order in which the read API lists the products
ProductOrder == <<"P1", "P2">>

\* the stock the operator writes at store time t
StockAt(t) == IF t = 1 THEN 5 ELSE IF t = 2 THEN 3 ELSE 0

\* IProduct, reduced to the fields the subscriber reads
Snapshot(p, t) == [productId |-> p, lastUpdated |-> t, stock |-> StockAt(t)]

\* an empty Map
EmptyMap == [p \in {} |-> 0]

\* Map.has / Map.set / Map.delete
Has(m, k) == k \in DOMAIN m
MapSet(m, k, v) == [x \in (DOMAIN m) \cup {k} |-> IF x = k THEN v ELSE m[x]]
MapDelete(m, k) == [x \in (DOMAIN m) \ {k} |-> m[x]]

\* no product: null, or a document without the fields of a product
NoProduct == [productId |-> "-", lastUpdated |-> 0, stock |-> 0]

\* record of a step: the delivery path it served ("push", "poll" or "none"),
\* the operation and the product id of the pushed event, the snapshots it
\* examined, the snapshot it passed to updateProductEmbed and the snapshot it
\* passed to productCache.set (NoProduct: no such call)
Step(path, operation, key, examined, call, set) ==
  [path |-> path, operation |-> operation, key |-> key,
   examined |-> examined, call |-> call, set |-> set]

\* a step that handles no snapshot
Quiet == Step("none", "-", "-", <<>>, NoProduct, NoProduct)

Min(a, b) == IF a < b THEN a ELSE b

VARIABLES
  catalog,        \* the store: productId -> current document
  storeClock,     \* the store's clock (new Date() of the last write)
  pushed,         \* PRODUCT_UPDATE messages the hub has sent to the bot
  latestSeen,     \* products whose current store state an apply has served
  productCache,   \* ProductManager.productCache: productId -> {product, lastUpdated}
  sinceLastPoll,  \* Date.now() - ProductManager.lastPollTime, saturated
  runs,           \* the pollForUpdates executions in flight, a bag
  last,           \* what the last step did to the cache and the embeds
  boot,           \* position of DiscordBot.initializeSystems
  initData,       \* the response initializeProductCache is waiting for
  sockets,        \* every WebSocket made by connect(), by creation order
  ws,             \* WebSocketManager.ws: index in sockets, 0 for null
  isConnected,    \* WebSocketManager.isConnected
  reconnectAttempts,        \* WebSocketManager.reconnectAttempts
  reconnectTimers,          \* pending setTimeout(() => this.connect(), delay)
  heartbeatInterval,        \* WebSocketManager.heartbeatInterval is not null
  heartbeatTimers,          \* number of heartbeat intervals not cleared
  heartbeatLate,            \* Date.now() - lastHeartbeat > 30000
  fallbackPollingInterval,  \* WebSocketManager.fallbackPollingInterval is not null
  failedAttempts, \* sockets that failed since the last one that opened
  stopped,        \* WebSocketManager.disconnect() has been called
  subscribed,     \* the sockets a SUBSCRIBE_PRODUCTS message was sent on
  clients,        \* the hub's connections, in the order of its clients Set
  fanout,         \* the last broadcast of the hub: message, targets, receivers
  hubHeartbeatInterval,     \* the interval of the hub's startHeartbeat runs
  cleanedUp,      \* cleanup() of the hub has been called
  changeStream,   \* the product change stream: "open" or "closed"
  feed,           \* the last change of the products collection and the
                  \* messages the watcher broadcast for it
  routed,         \* the broadcasts of the last 'change' handler run
  cached,         \* lib/mongodb.ts: cached.conn and cached.promise are set
  calls,          \* the connectToDatabase() calls, each at its position
  changeStreams,  \* product change streams opened by setupChangeStreams
  emitted         \* 'change' handler runs for the last catalog mutation

storeVars == <<catalog, storeClock>>
hubVars == <<pushed, latestSeen>>
cacheVars == <<productCache, sinceLastPoll, runs>>
bootVars == <<boot, initData>>
connVars == <<sockets, ws, isConnected, reconnectAttempts, reconnectTimers,
              heartbeatInterval, heartbeatTimers, heartbeatLate,
              fallbackPollingInterval, failedAttempts, stopped, subscribed>>
probeVars == <<hubHeartbeatInterval, cleanedUp>>
watchVars == <<changeStream, feed>>
dbVars == <<cached, calls, changeStreams, emitted>>
dashVars == <<routed, dbVars>>
serverVars == <<clients, fanout, probeVars, watchVars, dashVars>>

vars == <<storeVars, serverVars, hubVars, cacheVars, last, bootVars, connVars>>

(* ------------------------- catalog store ------------------------------ *)
\* GET /api/products: Product.find({}).sort({createdAt: -1})
RECURSIVE ListFrom(_, _)
ListFrom(cat, i) ==
  IF i > Len(ProductOrder) THEN <<>>
  ELSE IF Has(cat, ProductOrder[i])
       THEN <<cat[ProductOrder[i]]>> \o ListFrom(cat, i + 1)
       ELSE ListFrom(cat, i + 1)

FindAll(cat) == ListFrom(cat, 1)

\* the change event of a write: data is change.fullDocument
WriteEvent(doc, existed) ==
  [type |-> "PRODUCT_UPDATE",
   operation |-> IF existed THEN "update" ELSE "insert",
   key |-> doc.productId,
   data |-> doc]

\* the change event of a delete: data is change.documentKey, the store's key
\* of the document, which carries neither productId nor lastUpdated
DeleteEvent(p) ==
  [type |-> "PRODUCT_UPDATE",
   operation |-> "delete",
   key |-> p,
   data |-> NoProduct]

\* webSocketManager.broadcast: sent to the connections that are open; the
\* 'change' handler runs while the change stream is open
Broadcast(m) ==
  pushed' = IF changeStream = "open" /\ \E s \in DOMAIN sockets : sockets[s] = "open"
            THEN pushed \cup {m} ELSE pushed

\* the products whose current document is one of `snaps`
CurrentIn(snaps) == {p \in DOMAIN catalog : catalog[p] \in snaps}

\* an apply has served `snaps` to the end
Served(snaps) == latestSeen' = latestSeen \cup CurrentIn(snaps)

Range(seq) == {seq[i] : i \in DOMAIN seq}

(* ----------------------- change feed watcher -------------------------- *)
\* the store's key of the document of product p: its _id
ObjectId(p) == IF p = "P1" THEN "oid1" ELSE "oid2"

\* the fields named by the $in of the pipeline
WatchedFields == {"stock", "price", "isActive", "lastUpdated"}

\* a change event of the products collection, with fullDocument:
\* 'updateLookup' (NoProduct: the event has no fullDocument)
Change(operationType, p, updatedFields, fullDocument) ==
  [operationType |-> operationType,
   documentKey |-> [_id |-> ObjectId(p)],
   updatedFields |-> updatedFields,
   fullDocument |-> fullDocument]

\* no change
NoChange ==
  [operationType |-> "-", documentKey |-> [_id |-> "-"],
   updatedFields |-> {}, fullDocument |-> NoProduct]

\* no change seen yet
NoFeed == [change |-> NoChange, published |-> <<>>]

\* "'updateDescription.updatedFields': { $in: [...] }": the value of the
\* path is a document (field name -> new value), never one of the strings
UpdatedFieldsIn(change, names) == FALSE

\* the $match stage of productCollection.watch: an $or
Matches(change) ==
  \/ change.operationType = "insert"
  \/ change.operationType = "update"
  \/ change.operationType = "delete"
  \/ UpdatedFieldsIn(change, WatchedFields)

\* the 'change' handler: the message it broadcasts to every connection and
\* the message it sends to the bots
OnChange(change) ==
  <<[type |-> "PRODUCT_UPDATE",
     operation |-> change.operationType,
     data |-> IF change.fullDocument # NoProduct THEN change.fullDocument
              ELSE change.documentKey],
    [type |-> "PRODUCT_UPDATE_REQUIRED",
     productId |-> IF change.fullDocument # NoProduct
                   THEN change.fullDocument.productId
                   ELSE change.documentKey._id,
     operation |-> change.operationType]>>

\* the change reaches the watcher if its stream is open and the pipeline
\* lets it through
Watch(change) ==
  feed' = [change |-> change,
           published |-> IF changeStream = "open" /\ Matches(change)
                         THEN OnChange(change) ELSE <<>>]

\* a product is created, or saved with a changed stock: lastUpdated = new Date()
CatalogWrite(p) ==
  /\ storeClock < MaxVersion
  /\ storeClock' = storeClock + 1
  /\ catalog' = MapSet(catalog, p, Snapshot(p, storeClock + 1))
  /\ Broadcast(WriteEvent(Snapshot(p, storeClock + 1), Has(catalog, p)))
  /\ Watch(Change(IF Has(catalog, p) THEN "update" ELSE "insert", p,
                  {"stock", "lastUpdated", "updatedAt"},
                  Snapshot(p, storeClock + 1)))
  /\ latestSeen' = latestSeen \ {p}
  /\ last' = Quiet
  /\ UNCHANGED <<clients, fanout, probeVars, dashVars, changeStream, cacheVars,
                 bootVars, connVars>>

\* a product is saved with changes in none of price, stock and isActive: the
\* pre('save') hook leaves lastUpdated, the timestamps option sets updatedAt
CatalogTouch(p) ==
  /\ Has(catalog, p)
  /\ Broadcast(WriteEvent(catalog[p], TRUE))
  /\ Watch(Change("update", p, {"featured", "updatedAt"}, catalog[p]))
  /\ last' = Quiet
  /\ UNCHANGED <<storeVars, clients, fanout, probeVars, dashVars, changeStream,
                 latestSeen, cacheVars, bootVars, connVars>>

\* a product is removed from the store
CatalogDelete(p) ==
  /\ storeClock < MaxVersion
  /\ Has(catalog, p)
  /\ storeClock' = storeClock + 1
  /\ catalog' = MapDelete(catalog, p)
  /\ Broadcast(DeleteEvent(p))
  /\ Watch(Change("delete", p, {}, NoProduct))
  /\ latestSeen' = latestSeen \ {p}
  /\ last' = Quiet
  /\ UNCHANGED <<clients, fanout, probeVars, dashVars, changeStream, cacheVars,
                 bootVars, connVars>>

\* productChangeStream.on('error'): the error is logged; the driver has
\* closed the stream
ChangeStreamError ==
  /\ changeStream = "open"
  /\ changeStream' = "closed"
  /\ last' = Quiet
  /\ UNCHANGED <<storeVars, clients, fanout, probeVars, dashVars, feed, hubVars,
                 cacheVars, bootVars, connVars>>

(* --------------------- ProductManager: polling ------------------------ *)
\* new Date(product.lastUpdated): the JSON date string parsed back to the
\* millisecond count it was made from
NewDate(t) == t

\* the comparison written ">=": equal versions count as updates
IsUpdateOrEqual(cache, product) ==
  \/ ~Has(cache, product.productId)
  \/ NewDate(product.lastUpdated) >= cache[product.productId].lastUpdated

\* "if (!cached || productLastUpdated > cached.lastUpdated)"
IsUpdate(cache, product) ==
  \/ ~Has(cache, product.productId)
  \/ NewDate(product.lastUpdated) > cache[product.productId].lastUpdated

\* the entry counts revisions instead of keeping the product's date
CacheSetCounting(cache, product) ==
  MapSet(cache, product.productId,
         [product |-> product,
          lastUpdated |-> IF Has(cache, product.productId)
                          THEN cache[product.productId].lastUpdated + 1
                          ELSE 1])

\* "this.productCache.set(product.productId, {product, lastUpdated})"
CacheSet(cache, product) ==
  MapSet(cache, product.productId,
         [product |-> product, lastUpdated |-> NewDate(product.lastUpdated)])

\* getCachedProduct(productId)
getCachedProduct(cache, p) == IF Has(cache, p) THEN cache[p].product ELSE NoProduct

\* the for loop of processProductUpdates, from its top to its next await:
\* the items that are not updates are skipped; the result is the rest of the
\* list, whose head (if any) is the item whose embed update is awaited
RECURSIVE SkipToUpdate(_, _)
SkipToUpdate(cache, products) ==
  IF products = <<>> THEN <<>>
  ELSE IF IsUpdate(cache, Head(products)) THEN products
  ELSE SkipToUpdate(cache, Tail(products))

\* an execution of pollForUpdates: waiting for the response of its fetch, or
\* in the loop, waiting for the embed update of Head(products)
Fetching(products) == [pc |-> "fetch", products |-> products]
Embedding(products) == [pc |-> "embed", products |-> products]

Run == BagToSet(runs)

\* a poll that starts whatever the time since the last one
PollStartAlways ==
  /\ BagCardinality(runs) < MaxRuns
  /\ sinceLastPoll' = 0
  /\ runs' = runs (+) SetToBag({Fetching(FindAll(catalog))})
  /\ UNCHANGED productCache

\* pollForUpdates up to "await fetch(...)"; the read API answers with the
\* catalog as it is now
PollStart ==
  /\ BagCardinality(runs) < MaxRuns
  /\ ~(sinceLastPoll < PollMinInterval)
  /\ sinceLastPoll' = 0
  /\ runs' = runs (+) SetToBag({Fetching(FindAll(catalog))})
  /\ UNCHANGED productCache

\* pollForUpdates called less than 5000 ms after the last poll: returns
PollRateLimited ==
  /\ sinceLastPoll < PollMinInterval
  /\ UNCHANGED cacheVars

\* a call of pollForUpdates that returned at the rate limit
Limited == Step("limited", "-", "-", <<>>, NoProduct, NoProduct)

\* a call of pollForUpdates
pollForUpdates ==
  /\ PollStart \/ PollRateLimited
  /\ last' = IF sinceLastPoll < PollMinInterval THEN Limited ELSE Quiet
  /\ UNCHANGED <<storeVars, serverVars, hubVars, bootVars, connVars>>

\* a poll cycle that handled no snapshot because its read failed
Missed == Step("missed", "-", "-", <<>>, NoProduct, NoProduct)

\* a failed read that ends the fallback polling
PollFailFatal(r) ==
  /\ r.pc = "fetch"
  /\ runs' = runs (-) SetToBag({r})
  /\ last' = Missed
  /\ fallbackPollingInterval' = FALSE
  /\ UNCHANGED <<storeVars, serverVars, hubVars, productCache, sinceLastPoll,
                 bootVars, sockets, ws, isConnected, reconnectAttempts,
                 reconnectTimers, heartbeatInterval, heartbeatTimers,
                 heartbeatLate, failedAttempts, stopped, subscribed>>

\* the fetch fails, the status is not OK, or the body has success false: the
\* error is logged, inside pollForUpdates
PollFail(r) ==
  /\ r.pc = "fetch"
  /\ runs' = runs (-) SetToBag({r})
  /\ last' = Missed
  /\ UNCHANGED <<storeVars, serverVars, hubVars, productCache, sinceLastPoll, bootVars, connVars>>

\* the loop runs from the top of the list `products` to its next await, after
\* the cache entry of `set` was set
LoopToAwait(r, cache, products, set) ==
  LET rest == SkipToUpdate(cache, products) IN
    IF rest = <<>>
    THEN /\ runs' = runs (-) SetToBag({r})
         /\ last' = Step("poll", "-", "-", products, NoProduct, set)
         /\ Served(Range(products) \cup {set})
    ELSE /\ runs' = (runs (-) SetToBag({r})) (+) SetToBag({Embedding(rest)})
         /\ last' = Step("poll", "-", "-",
                         SubSeq(products, 1, Len(products) - Len(rest) + 1),
                         Head(rest), set)
         /\ Served((Range(products) \ Range(rest)) \cup {set})

\* the response arrives with success true: processProductUpdates starts
PollResponse(r) ==
  /\ r.pc = "fetch"
  /\ LoopToAwait(r, productCache, r.products, NoProduct)
  /\ UNCHANGED <<storeVars, serverVars, pushed, productCache, sinceLastPoll, bootVars, connVars>>

\* "await this.channelManager.updateProductEmbed(product)" returns: the cache
\* entry is set and the loop goes on
PollResume(r) ==
  /\ r.pc = "embed"
  /\ productCache' = CacheSet(productCache, Head(r.products))
  /\ LoopToAwait(r, productCache', Tail(r.products), Head(r.products))
  /\ UNCHANGED <<storeVars, serverVars, pushed, sinceLastPoll, bootVars, connVars>>

\* processProductUpdates(products) run from its start to its end with nothing
\* else running in between: the cache it leaves and the updateProductEmbed
\* calls it makes
RECURSIVE ProcessProductUpdates(_, _)
ProcessProductUpdates(cache, products) ==
  IF products = <<>> THEN [cache |-> cache, calls |-> <<>>]
  ELSE IF IsUpdate(cache, Head(products))
       THEN LET rest == ProcessProductUpdates(CacheSet(cache, Head(products)),
                                              Tail(products))
            IN [cache |-> rest.cache, calls |-> <<Head(products)>> \o rest.calls]
       ELSE ProcessProductUpdates(cache, Tail(products))

\* DiscordBot.handleButtonInteraction, customId "refresh_btn:..."
RefreshButton ==
  /\ boot # "new"
  /\ pollForUpdates

(* ------------------- WebSocketManager: pushed events ------------------ *)
\* handleProductUpdate(message.data, message.operation): the product cache
\* after the handler
HandleProductUpdateCache(cache, m) == cache

\* handleProductUpdate: the updateProductEmbed call it makes
HandleProductUpdateCall(m) ==
  IF m.operation \in {"insert", "update"} THEN m.data ELSE NoProduct

\* WebSocketManager.handleMessage for a PRODUCT_UPDATE message: the cache it
\* leaves and the updateProductEmbed calls it makes
HandleMessage(cache, m) ==
  [cache |-> HandleProductUpdateCache(cache, m),
   calls |-> IF HandleProductUpdateCall(m) = NoProduct THEN <<>>
             ELSE <<HandleProductUpdateCall(m)>>]

\* WebSocketClient.handleMessage for a PRODUCT_UPDATE message: it calls
\* productManager.handleProductUpdate, which ProductManager does not have; the
\* TypeError is caught by the 'message' handler
ClientHandleMessage(cache, m) == [cache |-> cache, calls |-> <<>>]

\* a PRODUCT_UPDATE message reaches the 'message' handler of an open socket
PushDeliver(m) ==
  /\ m \in pushed
  /\ \E s \in DOMAIN sockets : sockets[s] = "open"
  /\ productCache' = HandleProductUpdateCache(productCache, m)
  /\ last' = Step("push", m.operation, m.key, <<m.data>>,
                   HandleProductUpdateCall(m), NoProduct)
  /\ latestSeen' = IF m.operation = "delete"
                   THEN latestSeen \cup ({m.key} \ DOMAIN catalog)
                   ELSE latestSeen \cup CurrentIn({m.data})
  /\ UNCHANGED <<storeVars, serverVars, pushed, sinceLastPoll, runs, bootVars, connVars>>

(* ------------------ WebSocketManager: the connection ------------------ *)
\* A socket made by connect() is "connecting", then "open"; "aborted" when
\* close() or terminate() was called on it while connecting (the library
\* emits 'error', then 'close'); "closing" once its 'error' has been emitted
\* and its 'close' is due; "terminated" when terminate() destroyed it while
\* open, "closeSent" when close() started the closing handshake (the library
\* emits 'close' only); "closed" after its 'close'.

\* The library emits the events of a socket that failed, was aborted or was
\* destroyed in the turn of the event loop in which that happened: no timer,
\* message or other socket's event comes in between.
Settled ==
  \A s \in DOMAIN sockets : sockets[s] \notin {"closing", "aborted", "terminated"}

\* Frames the 'message' handler cannot serve: text that is not JSON, the
\* JSON text "null", a message of an unknown type and a PRODUCT_UPDATE with
\* an unknown operation
BadFrames ==
  {[json |-> FALSE, object |-> FALSE, type |-> "-", operation |-> "-"],
   [json |-> TRUE, object |-> FALSE, type |-> "-", operation |-> "-"],
   [json |-> TRUE, object |-> TRUE, type |-> "NOPE", operation |-> "-"],
   [json |-> TRUE, object |-> TRUE, type |-> "PRODUCT_UPDATE",
    operation |-> "replace"]}

\* a 'message' handler without its try/catch
OnMessageErrorUncaught == "uncaught"

\* "catch (error) { console.error('Error parsing WebSocket message') }"
OnMessageError == "caught"

\* the 'message' handler with handleMessage and handleProductUpdate: what
\* becomes of the frame.  JSON.parse throws on text that is not JSON and
\* "message.type" throws on null, both inside the try; the default branches
\* of the two switches log
MessageHandler(frame) ==
  IF ~frame.json \/ ~frame.object THEN OnMessageError
  ELSE IF frame.type = "CONNECTION_ESTABLISHED" THEN "logged"
  ELSE IF frame.type = "PRODUCT_UPDATE"
       THEN IF frame.operation \in {"insert", "update"} THEN "embed"
            ELSE "logged"
  ELSE IF frame.type = "PONG" THEN "pong"
  ELSE "logged"

\* a frame of BadFrames reaches the 'message' handler of an open socket; an
\* exception that leaves the handler ends the process
MessageDrop(frame) ==
  /\ Settled
  /\ \E s \in DOMAIN sockets : sockets[s] = "open"
  /\ IF MessageHandler(frame) = "uncaught"
     THEN /\ sockets' = [s \in DOMAIN sockets |-> "closed"]
          /\ isConnected' = FALSE
     ELSE UNCHANGED <<sockets, isConnected>>
  /\ last' = Step("dropped", frame.operation, frame.type, <<>>, NoProduct,
                   NoProduct)
  /\ UNCHANGED <<storeVars, serverVars, hubVars, cacheVars, bootVars, ws,
                 reconnectAttempts, reconnectTimers, heartbeatInterval,
                 heartbeatTimers, heartbeatLate, fallbackPollingInterval,
                 failedAttempts, stopped, subscribed>>

\* connect(): "this.ws = new WebSocket(wsUrl)" and the four handlers
Connect ==
  /\ sockets' = Append(sockets, "connecting")
  /\ ws' = Len(sockets) + 1

\* the states of the sockets after "this.ws.close()"
Close(socks, w) ==
  IF w = 0 THEN socks
  ELSE [socks EXCEPT ![w] = IF @ = "open" THEN "closeSent"
                            ELSE IF @ = "connecting" THEN "aborted" ELSE @]

\* the states of the sockets after "this.ws.terminate()"
Terminate(socks, w) ==
  IF w = 0 THEN socks
  ELSE [socks EXCEPT ![w] = IF @ = "open" THEN "terminated"
                            ELSE IF @ = "connecting" THEN "aborted" ELSE @]

\* send(message) passes the message to this.ws.send: "this.isConnected &&
\* this.ws && this.ws.readyState === WebSocket.OPEN"
CanSend(connected, socks, w) == connected /\ w # 0 /\ socks[w] = "open"

\* a startFallbackPolling that sets no interval
StartFallbackPollingIdle == UNCHANGED fallbackPollingInterval

\* startFallbackPolling
StartFallbackPolling == fallbackPollingInterval' = TRUE

\* stopFallbackPolling
StopFallbackPolling == fallbackPollingInterval' = FALSE

\* startHeartbeat: a new interval, whatever the field held before
StartHeartbeat ==
  /\ heartbeatLate' = FALSE
  /\ heartbeatInterval' = TRUE
  /\ heartbeatTimers' = heartbeatTimers + 1

\* stopHeartbeat: clears the interval the field holds
StopHeartbeat ==
  /\ heartbeatInterval' = FALSE
  /\ heartbeatTimers' = IF heartbeatInterval THEN heartbeatTimers - 1
                        ELSE heartbeatTimers

\* a delay counted from the attempt after this one
ReconnectDelayNext(attempts) == reconnectDelay * (attempts + 1)

\* the delay handleDisconnection computes for the attempt count `attempts`
ReconnectDelayOf(attempts) == reconnectDelay * attempts

\* a retry test that lets one more attempt through
MayRetryOnceMore(attempts) == attempts <= maxReconnectAttempts

\* "if (this.reconnectAttempts < this.maxReconnectAttempts)"
MayRetry(attempts) == attempts < maxReconnectAttempts

\* a test that finds no disconnection to be the first
FirstDisconnectionNever(attempts) == FALSE

\* "if (this.reconnectAttempts === 1)", after the increment
FirstDisconnection(attempts) == attempts = 1

\* handleDisconnection, called with `failed` sockets failed so far
HandleDisconnection(failed) ==
  /\ isConnected' = FALSE
  /\ StopHeartbeat
  /\ UNCHANGED heartbeatLate
  /\ IF MayRetry(reconnectAttempts)
     THEN /\ reconnectAttempts' = reconnectAttempts + 1
          /\ reconnectTimers' = Append(reconnectTimers,
                 [delay |-> ReconnectDelayOf(reconnectAttempts + 1),
                  after |-> failed])
          /\ IF FirstDisconnection(reconnectAttempts + 1)
             THEN StartFallbackPolling
             ELSE UNCHANGED fallbackPollingInterval
     ELSE /\ StartFallbackPolling
          /\ UNCHANGED <<reconnectAttempts, reconnectTimers>>

\* the 'open' event of socket s
SocketOpen(s) ==
  /\ Settled
  /\ sockets[s] = "connecting"
  /\ sockets' = [sockets EXCEPT ![s] = "open"]
  /\ isConnected' = TRUE
  /\ reconnectAttempts' = 0
  /\ StartHeartbeat
  /\ StopFallbackPolling
  /\ subscribed' = IF CanSend(isConnected', sockets', ws)
                   THEN subscribed \cup {ws} ELSE subscribed
  /\ failedAttempts' = 0
  /\ last' = Quiet
  /\ UNCHANGED <<storeVars, serverVars, hubVars, cacheVars, bootVars, ws,
                 reconnectTimers, stopped>>

\* the 'error' event of socket s: the handshake or the transport failed; the
\* library emits 'close' after it
SocketError(s) ==
  /\ Settled \/ sockets[s] = "aborted"
  /\ sockets[s] \in {"connecting", "open", "aborted"}
  /\ sockets' = [sockets EXCEPT ![s] = "closing"]
  /\ failedAttempts' = failedAttempts + 1
  /\ HandleDisconnection(failedAttempts + 1)
  /\ last' = Quiet
  /\ UNCHANGED <<storeVars, serverVars, hubVars, cacheVars, bootVars, ws,
                 stopped, subscribed>>

\* the 'close' event of socket s: after its 'error', or alone when the hub
\* closes the connection or the socket was closed or terminated while open
SocketClose(s) ==
  /\ Settled \/ sockets[s] \in {"closing", "terminated"}
  /\ sockets[s] \in {"open", "closing", "terminated", "closeSent"}
  /\ sockets' = [sockets EXCEPT ![s] = "closed"]
  /\ failedAttempts' = IF sockets[s] = "closing" THEN failedAttempts
                       ELSE failedAttempts + 1
  /\ HandleDisconnection(failedAttempts')
  /\ last' = Quiet
  /\ UNCHANGED <<storeVars, serverVars, hubVars, cacheVars, bootVars, ws,
                 stopped, subscribed>>

\* a reconnect timer fires: connect()
ReconnectFire(i) ==
  /\ Settled
  /\ i \in DOMAIN reconnectTimers
  /\ reconnectTimers' = [j \in 1..(Len(reconnectTimers) - 1) |->
                           IF j < i THEN reconnectTimers[j] ELSE reconnectTimers[j + 1]]
  /\ Connect
  /\ last' = Quiet
  /\ UNCHANGED <<storeVars, serverVars, hubVars, cacheVars, bootVars, isConnected,
                 reconnectAttempts, heartbeatInterval, heartbeatTimers,
                 heartbeatLate, fallbackPollingInterval, failedAttempts,
                 stopped, subscribed>>

\* more than 30000 ms have passed since lastHeartbeat was set, while the
\* manager is connected; the reconnect timers, which were set before
\* lastHeartbeat with delays of 25000 ms at most, have fired by then
HeartbeatLapse ==
  /\ Settled
  /\ heartbeatTimers > 0
  /\ isConnected
  /\ reconnectTimers = <<>>
  /\ ~heartbeatLate
  /\ heartbeatLate' = TRUE
  /\ last' = Quiet
  /\ UNCHANGED <<storeVars, serverVars, hubVars, cacheVars, bootVars, sockets, ws,
                 isConnected, reconnectAttempts, reconnectTimers,
                 heartbeatInterval, heartbeatTimers, fallbackPollingInterval,
                 failedAttempts, stopped, subscribed>>

\* handleMessage, case 'PONG', the hub's answer to a PING, which send() passes
\* to this.ws only: "this.lastHeartbeat = Date.now()"
Pong ==
  /\ Settled
  /\ CanSend(isConnected, sockets, ws)
  /\ heartbeatLate
  /\ heartbeatLate' = FALSE
  /\ last' = Quiet
  /\ UNCHANGED <<storeVars, serverVars, hubVars, cacheVars, bootVars, sockets, ws,
                 isConnected, reconnectAttempts, reconnectTimers,
                 heartbeatInterval, heartbeatTimers, fallbackPollingInterval,
                 failedAttempts, stopped, subscribed>>

\* the callback of a heartbeat interval finds the server late
HeartbeatTimeout == isConnected /\ ws # 0 /\ heartbeatLate

\* a heartbeat interval fires: PING, and terminate() if the server is late
HeartbeatFire ==
  /\ Settled
  /\ heartbeatTimers > 0
  /\ sockets' = IF HeartbeatTimeout THEN Terminate(sockets, ws) ELSE sockets
  /\ last' = Quiet
  /\ UNCHANGED <<storeVars, serverVars, hubVars, cacheVars, bootVars, ws, isConnected,
                 reconnectAttempts, reconnectTimers, heartbeatInterval,
                 heartbeatTimers, heartbeatLate, fallbackPollingInterval,
                 failedAttempts, stopped, subscribed>>

\* disconnect(), called by DiscordBot.stop()
disconnect ==
  /\ Settled
  /\ boot = "up"
  /\ ~stopped
  /\ stopped' = TRUE
  /\ StopHeartbeat
  /\ StopFallbackPolling
  /\ sockets' = Close(sockets, ws)
  /\ ws' = 0
  /\ isConnected' = FALSE
  /\ last' = Quiet
  /\ UNCHANGED <<storeVars, serverVars, hubVars, cacheVars, bootVars,
                 reconnectAttempts, reconnectTimers, heartbeatLate,
                 failedAttempts, subscribed>>

\* the fallback polling interval fires
FallbackPollFire ==
  /\ Settled
  /\ fallbackPollingInterval
  /\ pollForUpdates

(* -------------------- DiscordBot.initializeSystems -------------------- *)
\* ClientReady: initializeSystems calls initializeProductCache, which fetches
ClientReady ==
  /\ boot = "new"
  /\ boot' = "init"
  /\ initData' = FindAll(catalog)
  /\ last' = Quiet
  /\ UNCHANGED <<storeVars, serverVars, hubVars, cacheVars, connVars>>

\* the loop of initializeProductCache: every item is set
RECURSIVE SetAll(_, _)
SetAll(cache, products) ==
  IF products = <<>> THEN cache
  ELSE SetAll(CacheSet(cache, Head(products)), Tail(products))

\* initializeProductCache returns (ok: the response had success true), then
\* webSocketManager.connect()
InitializeDone(ok) ==
  /\ boot = "init"
  /\ boot' = "up"
  /\ initData' = <<>>
  /\ productCache' = IF ok THEN SetAll(productCache, initData) ELSE productCache
  /\ IF ok THEN Served(Range(initData)) ELSE UNCHANGED latestSeen
  /\ Connect
  /\ last' = Quiet
  /\ UNCHANGED <<storeVars, serverVars, pushed, sinceLastPoll, runs, isConnected,
                 reconnectAttempts, reconnectTimers, heartbeatInterval,
                 heartbeatTimers, heartbeatLate, fallbackPollingInterval,
                 failedAttempts, stopped, subscribed>>

(* ------------------------- the broadcast hub -------------------------- *)
\* A connection of the hub is "open", "broken" (readyState is still OPEN but
\* the peer is gone: what is sent on it is lost, no pong comes back, and the
\* library reports the failure, if it notices it, by an 'error' event),
\* "closing" (readyState is no longer OPEN and the 'close' event is due) or
\* "terminated" (terminate() destroyed it; the 'close' event is due).
ClientTypes == {"dashboard", "bot"}

\* the value of the "client" parameter of the request URL ("": none)
ClientQueries == {"", "dashboard", "bot"}

\* "url.searchParams.get('client') as 'dashboard' | 'bot' || 'dashboard'"
ClientTypeOf(query) == IF query = "" THEN "dashboard" ELSE query

\* the broadcasts the change streams make: a product change is broadcast to
\* every connection and signalled to the bots, a ticket change is sent to the
\* dashboards
ChangeBroadcasts ==
  {[to |-> "all", message |-> "PRODUCT_UPDATE"],
   [to |-> "bot", message |-> "PRODUCT_UPDATE_REQUIRED"],
   [to |-> "dashboard", message |-> "TICKET_UPDATE"]}

\* no broadcast made yet
NoFanout == [message |-> "-", to |-> "-", targets |-> {}, broken |-> {},
             received |-> {}]

\* readyState compared with CONNECTING
ReadyStateConnecting(client) == client.state = "connecting"

\* client.readyState === WebSocket.OPEN
ReadyStateOpen(client) == client.state \in {"open", "broken"}

\* a filter that lets every role through
RoleMatchesAny(client, to) == TRUE

\* the filter of the forEach: none in broadcast ("all"),
\* "client.clientType === clientType" in broadcastToType
RoleMatches(client, to) == to = "all" \/ client.clientType = to

\* a send that throws when the transport is dead
HubSendThrowing(client, m) ==
  [delivered |-> client.state = "open", threw |-> client.state # "open"]

\* client.send(messageStr) on a connection whose readyState is OPEN: the
\* message is written to the transport; a failure of the transport is
\* reported later by the 'error' event, the call itself returns
HubSend(client, m) ==
  [delivered |-> client.state = "open", threw |-> FALSE]

\* "this.clients.forEach(client => { if (...) client.send(messageStr) })" from
\* the i-th connection on: the connections the message is delivered to; an
\* exception thrown by send ends the forEach
RECURSIVE ForEachSend(_, _, _, _)
ForEachSend(cs, i, to, m) ==
  IF i > Len(cs) THEN {}
  ELSE IF ReadyStateOpen(cs[i]) /\ RoleMatches(cs[i], to)
       THEN LET r == HubSend(cs[i], m) IN
              (IF r.delivered THEN {i} ELSE {})
                \cup (IF r.threw THEN {} ELSE ForEachSend(cs, i + 1, to, m))
       ELSE ForEachSend(cs, i + 1, to, m)

\* the record of a broadcast of m to the role `to` over the connections cs
Fanout(cs, to, m) ==
  [message |-> m, to |-> to,
   targets |-> {i \in DOMAIN cs : /\ cs[i].state = "open"
                                  /\ (to = "all" \/ cs[i].clientType = to)},
   broken |-> {i \in DOMAIN cs : cs[i].state = "broken"},
   received |-> ForEachSend(cs, 1, to, m)]

\* the connection after message m was delivered to it: `first` is the first
\* message it was sent, `welcomes` the number of CONNECTION_ESTABLISHED
Delivered(client, m) ==
  [client EXCEPT !.first = IF @ = "-" THEN m ELSE @,
                 !.welcomes = IF m = "CONNECTION_ESTABLISHED" THEN @ + 1 ELSE @]

\* a sendToClient that sends nothing
SendToClientDropped(client, m) == client

\* sendToClient(ws, message): "if (ws.readyState === WebSocket.OPEN) ws.send(...)"
SendToClient(client, m) ==
  IF ReadyStateOpen(client) /\ HubSend(client, m).delivered
  THEN Delivered(client, m) ELSE client

\* the 'connection' handler up to the welcome message: "ws.isAlive = true",
\* the role from the request URL; `unanswered` counts the probe ticks the
\* connection has seen since it was accepted or since its last pong
Accepted(query) ==
  [clientType |-> ClientTypeOf(query), state |-> "open", isAlive |-> TRUE,
   unanswered |-> 0, first |-> "-", welcomes |-> 0]

\* every destroyed connection has had its 'close' event: the library emits
\* it in the turn of the event loop that follows terminate()
HubSettled == \A c \in DOMAIN clients : clients[c].state # "terminated"

\* wss.on('connection'): the connection is registered and welcomed
HubConnection(query) ==
  /\ HubSettled
  /\ Len(clients) < MaxClients
  /\ clients' = Append(clients, SendToClient(Accepted(query),
                                             "CONNECTION_ESTABLISHED"))
  /\ last' = Quiet
  /\ UNCHANGED <<storeVars, fanout, probeVars, dashVars, watchVars, hubVars, cacheVars,
                 bootVars, connVars>>

\* the peer of connection c goes away without a closing handshake
HubTransportBreak(c) ==
  /\ HubSettled
  /\ clients[c].state = "open"
  /\ clients' = [clients EXCEPT ![c].state = "broken"]
  /\ last' = Quiet
  /\ UNCHANGED <<storeVars, fanout, probeVars, dashVars, watchVars, hubVars, cacheVars,
                 bootVars, connVars>>

\* the peer of connection c starts the closing handshake
HubPeerClose(c) ==
  /\ HubSettled
  /\ clients[c].state = "open"
  /\ clients' = [clients EXCEPT ![c].state = "closing"]
  /\ last' = Quiet
  /\ UNCHANGED <<storeVars, fanout, probeVars, dashVars, watchVars, hubVars, cacheVars,
                 bootVars, connVars>>

\* ws.on('close') / ws.on('error'): "this.clients.delete(ws)"
HubClientGone(c) ==
  /\ clients[c].state \in {"broken", "closing", "terminated"}
  /\ clients' = [j \in 1..(Len(clients) - 1) |->
                   IF j < c THEN clients[j] ELSE clients[j + 1]]
  /\ last' = Quiet
  /\ UNCHANGED <<storeVars, fanout, probeVars, dashVars, watchVars, hubVars, cacheVars,
                 bootVars, connVars>>

\* broadcast(message), or broadcastToType(clientType, message) for to # "all"
HubBroadcast(to, m) ==
  /\ HubSettled
  /\ fanout' = Fanout(clients, to, m)
  /\ clients' = [c \in DOMAIN clients |->
                   IF c \in fanout'.received THEN Delivered(clients[c], m)
                   ELSE clients[c]]
  /\ last' = Quiet
  /\ UNCHANGED <<storeVars, probeVars, dashVars, watchVars, hubVars, cacheVars,
                 bootVars, connVars>>

\* a 'pong' handler that leaves the connection as it is
OnPongIgnored(client) == client

\* the 'pong' handler: "ws.isAlive = true"
OnPong(client) == [client EXCEPT !.isAlive = TRUE]

\* ws.on('pong'): the reply of an open connection to the ping of the last
\* probe tick
HubPong(c) ==
  /\ HubSettled
  /\ clients[c].state = "open"
  /\ ~clients[c].isAlive
  /\ clients' = [clients EXCEPT ![c] = [OnPong(@) EXCEPT !.unanswered = 0]]
  /\ last' = Quiet
  /\ UNCHANGED <<storeVars, fanout, probeVars, dashVars, watchVars, hubVars, cacheVars,
                 bootVars, connVars>>

\* saturation of the tick count of a connection
MaxUnanswered == 3

\* connectToDatabase() calls made in one run
MaxCalls == 4

\* a probe that leaves isAlive as it is
ProbeKeepingAlive(client) ==
  IF ~client.isAlive THEN [client EXCEPT !.state = "terminated"] ELSE client

\* the body of the forEach of startHeartbeat: "if (!ws.isAlive) return
\* ws.terminate(); ws.isAlive = false; ws.ping()"
Probe(client) ==
  IF ~client.isAlive THEN [client EXCEPT !.state = "terminated"]
  ELSE [client EXCEPT !.isAlive = FALSE]

\* a tick of the interval of startHeartbeat (30000 ms)
HubHeartbeatFire ==
  /\ HubSettled
  /\ hubHeartbeatInterval
  /\ clients' = [c \in DOMAIN clients |->
                   [Probe(clients[c]) EXCEPT
                      !.unanswered = Min(@ + 1, MaxUnanswered)]]
  /\ last' = Quiet
  /\ UNCHANGED <<storeVars, fanout, probeVars, dashVars, watchVars, hubVars, cacheVars,
                 bootVars, connVars>>

\* cleanup(): the interval is cleared, every connection is terminated and the
\* set is cleared; the server keeps listening
cleanup ==
  /\ HubSettled
  /\ hubHeartbeatInterval' = FALSE
  /\ clients' = <<>>
  /\ cleanedUp' = TRUE
  /\ last' = Quiet
  /\ UNCHANGED <<storeVars, fanout, watchVars, dashVars, hubVars, cacheVars, bootVars,
                 connVars>>

(* ------------------ change streams: what goes to whom ------------------ *)
\* "criticalFields: ['stock', 'price', 'isActive']"
CriticalFields == {"stock", "price", "isActive"}

\* the 'change' handler of the product stream: broadcast(PRODUCT_UPDATE),
\* then broadcastToType('bot', PRODUCT_UPDATE_REQUIRED)
ProductRoutes ==
  <<[to |-> "all", message |-> "PRODUCT_UPDATE", criticalFields |-> {}],
    [to |-> "bot", message |-> "PRODUCT_UPDATE_REQUIRED",
     criticalFields |-> CriticalFields]>>

\* a ticket handler that broadcasts to every connection
TicketRoutesToAll ==
  <<[to |-> "all", message |-> "TICKET_UPDATE", criticalFields |-> {}]>>

\* the 'change' handler of the ticket stream:
\* broadcastToType('dashboard', TICKET_UPDATE)
TicketRoutes ==
  <<[to |-> "dashboard", message |-> "TICKET_UPDATE", criticalFields |-> {}]>>

\* the collections that are watched
Collections == {"products", "tickets"}

RoutesOf(collection) ==
  IF collection = "products" THEN ProductRoutes ELSE TicketRoutes

\* no 'change' handler has run yet
NoRouted == [collection |-> "-", roles |-> <<>>, sent |-> <<>>]

\* the connection c after the broadcasts sent[i], sent[i+1], ...
RECURSIVE DeliveredEach(_, _, _, _)
DeliveredEach(client, c, sent, i) ==
  IF i > Len(sent) THEN client
  ELSE DeliveredEach(IF c \in sent[i].received
                     THEN Delivered(client, sent[i].message) ELSE client,
                     c, sent, i + 1)

\* a 'change' event of a collection reaches its handler; `roles` keeps the
\* role of every connection that is open at that moment ("-": not open)
ChangeEvent(collection) ==
  /\ HubSettled
  /\ LET routes == RoutesOf(collection)
         sent == [i \in DOMAIN routes |->
                    [message |-> routes[i].message,
                     criticalFields |-> routes[i].criticalFields,
                     received |-> ForEachSend(clients, 1, routes[i].to,
                                              routes[i].message)]]
     IN /\ routed' = [collection |-> collection,
                      roles |-> [c \in DOMAIN clients |->
                                   IF clients[c].state = "open"
                                   THEN clients[c].clientType ELSE "-"],
                      sent |-> sent]
        /\ clients' = [c \in DOMAIN clients |->
                         DeliveredEach(clients[c], c, sent, 1)]
        /\ fanout' = Fanout(clients, routes[Len(routes)].to,
                            routes[Len(routes)].message)
  /\ last' = Quiet
  /\ UNCHANGED <<storeVars, probeVars, watchVars, dbVars, hubVars, cacheVars,
                 bootVars, connVars>>

(* ------------------- lib/mongodb.ts: connectToDatabase ----------------- *)
\* "let cached = global.mongoose || { conn: null, promise: null }"
NoCache == [conn |-> FALSE, promise |-> FALSE]

\* the continuation of every call whose awaited promise has settled has run:
\* continuations are microtasks, which run before any new request is served
DbSettled ==
  \A i \in DOMAIN calls : calls[i] \notin {"fulfilled", "rejected"}

\* setupChangeStreams(): productCollection.watch(...) opens one more stream
SetupChangeStreams(n) == n + 1

\* connectToDatabase() up to its await: it returns cached.conn if that is
\* set, else it makes the connection promise, if there is none, and awaits it
ConnectToDatabase ==
  /\ DbSettled
  /\ Len(calls) < MaxCalls
  /\ IF cached.conn
     THEN /\ calls' = Append(calls, "returned")
          /\ UNCHANGED cached
     ELSE /\ calls' = Append(calls, "await")
          /\ cached' = [cached EXCEPT !.promise = TRUE]
  /\ last' = Quiet
  /\ UNCHANGED <<storeVars, clients, fanout, probeVars, watchVars, routed,
                 changeStreams, emitted, hubVars, cacheVars, bootVars,
                 connVars>>

\* the promise of mongoose.connect settles: every call that awaits it is
\* resumed
MongooseConnect(ok) ==
  /\ \E i \in DOMAIN calls : calls[i] = "await"
  /\ calls' = [i \in DOMAIN calls |->
                 IF calls[i] # "await" THEN calls[i]
                 ELSE IF ok THEN "fulfilled" ELSE "rejected"]
  /\ last' = Quiet
  /\ UNCHANGED <<storeVars, clients, fanout, probeVars, watchVars, routed,
                 cached, changeStreams, emitted, hubVars, cacheVars, bootVars,
                 connVars>>

\* a call continues after its await: "cached.conn = await cached.promise;
\* await setupChangeStreams(); return cached.conn", or the catch block
\* "cached.promise = null; throw error"
DbResume(i) ==
  /\ calls[i] \in {"fulfilled", "rejected"}
  /\ IF calls[i] = "fulfilled"
     THEN /\ cached' = [cached EXCEPT !.conn = TRUE]
          /\ changeStreams' = SetupChangeStreams(changeStreams)
          /\ calls' = [calls EXCEPT ![i] = "returned"]
     ELSE /\ cached' = [cached EXCEPT !.promise = FALSE]
          /\ calls' = [calls EXCEPT ![i] = "threw"]
          /\ UNCHANGED changeStreams
  /\ last' = Quiet
  /\ UNCHANGED <<storeVars, clients, fanout, probeVars, watchVars, routed,
                 emitted, hubVars, cacheVars, bootVars, connVars>>

\* a product is changed in the store: the 'change' handler of every open
\* stream runs and calls broadcastToWebSocketClients with a PRODUCT_UPDATE
DbProductChange ==
  /\ DbSettled
  /\ emitted' = changeStreams
  /\ last' = Quiet
  /\ UNCHANGED <<storeVars, clients, fanout, probeVars, watchVars, routed,
                 cached, calls, changeStreams, hubVars, cacheVars, bootVars,
                 connVars>>

(* ------------------------------ time ---------------------------------- *)
\* TimeStep ms pass
Tick ==
  /\ sinceLastPoll' = Min(sinceLastPoll + TimeStep, PollMinInterval)
  /\ last' = Quiet
  /\ UNCHANGED <<storeVars, serverVars, hubVars, productCache, runs, bootVars, connVars>>

(* ------------------------- specifications ----------------------------- *)
Init ==
  /\ catalog = EmptyMap
  /\ storeClock = 0
  /\ pushed = {}
  /\ latestSeen = {}
  /\ productCache = EmptyMap
  /\ sinceLastPoll = PollMinInterval
  /\ runs = EmptyBag
  /\ last = Quiet
  /\ boot = "new"
  /\ initData = <<>>
  /\ sockets = <<>>
  /\ ws = 0
  /\ isConnected = FALSE
  /\ reconnectAttempts = 0
  /\ reconnectTimers = <<>>
  /\ heartbeatInterval = FALSE
  /\ heartbeatTimers = 0
  /\ heartbeatLate = FALSE
  /\ fallbackPollingInterval = FALSE
  /\ failedAttempts = 0
  /\ stopped = FALSE
  /\ subscribed = {}
  /\ clients = <<>>
  /\ fanout = NoFanout
  /\ hubHeartbeatInterval = TRUE
  /\ cleanedUp = FALSE
  /\ changeStream = "open"
  /\ feed = NoFeed
  /\ routed = NoRouted
  /\ cached = NoCache
  /\ calls = <<>>
  /\ changeStreams = 0
  /\ emitted = 0

\* the subscriber's cache under catalog writes, pushes and polls, over a
\* connection that stays up
NextSync ==
  \/ \E p \in Products : CatalogWrite(p)
  \/ \E p \in Products : CatalogDelete(p)
  \/ ClientReady
  \/ \E ok \in BOOLEAN : InitializeDone(ok)
  \/ \E s \in DOMAIN sockets : SocketOpen(s)
  \/ RefreshButton
  \/ \E r \in Run : PollFail(r)
  \/ \E r \in Run : PollResponse(r)
  \/ \E r \in Run : PollResume(r)
  \/ \E m \in pushed : PushDeliver(m)
  \/ Tick

SpecSync == Init /\ [][NextSync]_vars

\* a processProductUpdates is suspended at its await
Busy == \E r \in Run : r.pc = "embed"

\* the same, with the applies serialized: while a processProductUpdates is
\* suspended, no other apply (pushed event, poll result, cache
\* initialization) starts
NextSerial ==
  \/ \E p \in Products : CatalogWrite(p)
  \/ \E p \in Products : CatalogDelete(p)
  \/ ClientReady
  \/ \E s \in DOMAIN sockets : SocketOpen(s)
  \/ RefreshButton
  \/ \E r \in Run : PollFail(r)
  \/ \E r \in Run : PollResume(r)
  \/ Tick
  \/ ~Busy /\ \E ok \in BOOLEAN : InitializeDone(ok)
  \/ ~Busy /\ \E r \in Run : PollResponse(r)
  \/ ~Busy /\ \E m \in pushed : PushDeliver(m)

SpecSerial == Init /\ [][NextSerial]_vars

\* the connection manager, over a catalog that does not change
NextConn ==
  \/ ClientReady
  \/ \E ok \in BOOLEAN : InitializeDone(ok)
  \/ \E s \in DOMAIN sockets : SocketOpen(s)
  \/ \E s \in DOMAIN sockets : SocketError(s)
  \/ \E s \in DOMAIN sockets : SocketClose(s)
  \/ Len(sockets) < MaxSockets /\ \E i \in DOMAIN reconnectTimers : ReconnectFire(i)
  \/ FallbackPollFire
  \/ \E r \in Run : PollFail(r)
  \/ \E r \in Run : PollResponse(r)
  \/ HeartbeatLapse
  \/ Pong
  \/ HeartbeatFire
  \/ disconnect
  \/ Tick

SpecConn == Init /\ [][NextConn]_vars

\* the retry cycle during an outage of the hub: every socket fails until the
\* maximum number of sockets in a row has failed, then the hub may be
\* reachable again
NextOutage ==
  \/ ClientReady
  \/ \E ok \in BOOLEAN : InitializeDone(ok)
  \/ \E s \in DOMAIN sockets : SocketError(s)
  \/ \E s \in DOMAIN sockets : SocketClose(s)
  \/ Len(sockets) < MaxRetrySockets
       /\ \E i \in DOMAIN reconnectTimers : ReconnectFire(i)
  \/ failedAttempts >= maxReconnectAttempts
       /\ \E s \in DOMAIN sockets : SocketOpen(s)
  \/ HeartbeatLapse
  \/ Pong
  \/ HeartbeatFire

SpecOutage == Init /\ [][NextOutage]_vars

\* the broadcast hub: connections come and go, messages are broadcast
NextHub ==
  \/ \E query \in ClientQueries : HubConnection(query)
  \/ \E c \in DOMAIN clients : HubTransportBreak(c)
  \/ \E c \in DOMAIN clients : HubPeerClose(c)
  \/ \E c \in DOMAIN clients : HubClientGone(c)
  \/ \E b \in ChangeBroadcasts : HubBroadcast(b.to, b.message)

SpecHub == Init /\ [][NextHub]_vars

\* the liveness probe of the hub and its shutdown
NextProbe ==
  \/ \E query \in ClientQueries : HubConnection(query)
  \/ \E c \in DOMAIN clients : HubTransportBreak(c)
  \/ \E c \in DOMAIN clients : HubPeerClose(c)
  \/ \E c \in DOMAIN clients : HubClientGone(c)
  \/ \E c \in DOMAIN clients : HubPong(c)
  \/ HubHeartbeatFire
  \/ cleanup

SpecProbe == Init /\ [][NextProbe]_vars

\* the change feed watcher under the changes of the products collection,
\* with a bot that connects and receives what is pushed
NextWatch ==
  \/ \E p \in Products : CatalogWrite(p)
  \/ \E p \in Products : CatalogTouch(p)
  \/ \E p \in Products : CatalogDelete(p)
  \/ ChangeStreamError
  \/ ClientReady
  \/ \E ok \in BOOLEAN : InitializeDone(ok)
  \/ \E s \in DOMAIN sockets : SocketOpen(s)
  \/ \E m \in pushed : PushDeliver(m)

SpecWatch == Init /\ [][NextWatch]_vars

\* the polls of a bot whose first socket has failed: the fallback timer and
\* the refresh button both call pollForUpdates, reads may fail
NextPoll ==
  \/ \E p \in Products : CatalogWrite(p)
  \/ ClientReady
  \/ \E ok \in BOOLEAN : InitializeDone(ok)
  \/ \E s \in DOMAIN sockets : SocketError(s)
  \/ \E s \in DOMAIN sockets : SocketClose(s)
  \/ FallbackPollFire
  \/ RefreshButton
  \/ \E r \in Run : PollFail(r)
  \/ \E r \in Run : PollResponse(r)
  \/ \E r \in Run : PollResume(r)
  \/ Tick

SpecPoll == Init /\ [][NextPoll]_vars

\* the same, where a step that can be taken is eventually taken
SpecWatchLive == SpecWatch /\ WF_vars(NextWatch)

\* the end-to-end scenario: one product that is written but never deleted,
\* serialized applies, polls made by the fallback timer only, and a connection
\* that may fail and be reopened
NextScenario ==
  \/ CatalogWrite("P1")
  \/ ClientReady
  \/ \E s \in DOMAIN sockets : SocketOpen(s)
  \/ \E s \in DOMAIN sockets : SocketError(s)
  \/ \E s \in DOMAIN sockets : SocketClose(s)
  \/ Len(sockets) < MaxSockets /\ \E i \in DOMAIN reconnectTimers : ReconnectFire(i)
  \/ FallbackPollFire
  \/ \E r \in Run : PollFail(r)
  \/ \E r \in Run : PollResume(r)
  \/ Tick
  \/ ~Busy /\ \E ok \in BOOLEAN : InitializeDone(ok)
  \/ ~Busy /\ \E r \in Run : PollResponse(r)
  \/ ~Busy /\ \E m \in pushed : PushDeliver(m)

SpecScenario == Init /\ [][NextScenario]_vars

\* the subscriber's 'message' handler: pushed events, heartbeat replies and
\* frames it cannot serve, over a connection that stays up
NextInbound ==
  \/ \E p \in Products : CatalogWrite(p)
  \/ \E p \in Products : CatalogDelete(p)
  \/ ClientReady
  \/ \E ok \in BOOLEAN : InitializeDone(ok)
  \/ \E s \in DOMAIN sockets : SocketOpen(s)
  \/ \E m \in pushed : PushDeliver(m)
  \/ \E frame \in BadFrames : MessageDrop(frame)
  \/ HeartbeatLapse
  \/ Pong

SpecInbound == Init /\ [][NextInbound]_vars

\* the 'change' handlers of the two streams over the hub's connections
NextRoute ==
  \/ \E query \in ClientQueries : HubConnection(query)
  \/ \E c \in DOMAIN clients : HubTransportBreak(c)
  \/ \E c \in DOMAIN clients : HubPeerClose(c)
  \/ \E c \in DOMAIN clients : HubClientGone(c)
  \/ \E collection \in Collections : ChangeEvent(collection)

SpecRoute == Init /\ [][NextRoute]_vars

\* the dashboard's requests, each calling connectToDatabase()
NextDb ==
  \/ ConnectToDatabase
  \/ \E ok \in BOOLEAN : MongooseConnect(ok)
  \/ \E i \in DOMAIN calls : DbResume(i)
  \/ DbProductChange

SpecDb == Init /\ [][NextDb]_vars

Next ==
  \/ NextSync \/ NextConn \/ NextOutage \/ NextHub \/ NextProbe
  \/ NextWatch \/ NextPoll \/ NextInbound \/ NextRoute \/ NextDb

Spec == Init /\ [][Next]_vars

(* ============================ properties ============================== *)
\* the snapshot is strictly newer than the entry the cache holds for its
\* product, or the cache holds none
StrictlyNewer(cache, snap) ==
  \/ snap.productId \notin DOMAIN cache
  \/ snap.lastUpdated > cache[snap.productId].lastUpdated

\* the step replaces the cache entry of the snapshot's product by the snapshot
Replaces(snap) ==
  /\ snap.productId \in DOMAIN productCache'
  /\ productCache'[snap.productId].product = snap
  /\ \/ snap.productId \notin DOMAIN productCache
     \/ productCache[snap.productId] # productCache'[snap.productId]

\* the step is an apply: it serves a pushed event or a poll result
ApplyStep == last'.path \in {"push", "poll"}

\* C1: every snapshot handed to the subscriber by a pushed insert/update or as
\* an item of a poll result replaces the cache entry iff no entry exists or
\* its lastUpdated is strictly greater than the cached one.  A pushed
\* snapshot replaces the entry in the step that handles it; a polled one is
\* passed to updateProductEmbed and set when that call returns.
C1_AppliedIffNewer ==
  [][/\ (last'.path = "push" /\ last'.operation \in {"insert", "update"})
          => \A i \in DOMAIN last'.examined :
               Replaces(last'.examined[i])
                 <=> StrictlyNewer(productCache, last'.examined[i])
     /\ last'.path = "poll"
          => /\ \A i \in DOMAIN last'.examined :
                  (last'.call = last'.examined[i])
                    <=> StrictlyNewer(productCache', last'.examined[i])
             /\ \A r \in Run : PollResume(r) => Replaces(Head(r.products))
    ]_vars

\* C2: over any sequence of serialized applies the cached lastUpdated of a
\* product never decreases, an entry changes only to a strictly newer
\* snapshot, and productCache.set is called only for a strictly newer one
C2_VersionMonotone ==
  [][ApplyStep =>
       /\ \A p \in DOMAIN productCache :
            /\ p \in DOMAIN productCache'
            /\ productCache'[p].lastUpdated >= productCache[p].lastUpdated
            /\ productCache'[p] # productCache[p]
                 => productCache'[p].lastUpdated > productCache[p].lastUpdated
       /\ last'.set # NoProduct => StrictlyNewer(productCache, last'.set)
       /\ \A i \in DOMAIN last'.examined :
            ~StrictlyNewer(productCache, last'.examined[i])
              => /\ last'.call # last'.examined[i] \/ last'.path = "push"
                 /\ productCache'[last'.examined[i].productId]
                      = productCache[last'.examined[i].productId]
    ]_vars

\* a poll result with a snapshot older than the cached one has just been
\* served, and the cache holds the newer one
C2_Witness ==
  /\ last.path = "poll"
  /\ \E i \in DOMAIN last.examined :
       /\ last.examined[i].productId \in DOMAIN productCache
       /\ last.examined[i].lastUpdated
            < productCache[last.examined[i].productId].lastUpdated

\* C3: a pushed delete removes the cache entry of its product whatever version
\* is cached (getCachedProduct returns null after it), and once the bot is up
\* an entry appears only in a step that serves an insert/update or a poll item
\* of that product
C3_DeleteRemoves ==
  [][/\ (last'.path = "push" /\ last'.operation = "delete")
          => getCachedProduct(productCache', last'.key) = NoProduct
     /\ \A p \in Products :
          (boot = "up" /\ p \notin DOMAIN productCache /\ p \in DOMAIN productCache')
            => \/ last'.path = "push" /\ last'.operation \in {"insert", "update"}
                                       /\ last'.key = p
               \/ last'.path = "poll" /\ last'.set.productId = p
    ]_vars

\* what the store holds for product p, as getCachedProduct would return it
Stored(p) == IF p \in DOMAIN catalog THEN catalog[p] ELSE NoProduct

\* C4: once the current state of every product of the store or of the cache
\* has been served to the subscriber by either path, the cache holds exactly
\* the products of the store, each with the fields of its current snapshot
C4_Converges ==
  (\A p \in (DOMAIN catalog) \cup (DOMAIN productCache) : p \in latestSeen)
    => \A p \in Products : getCachedProduct(productCache, p) = Stored(p)

\* every snapshot the store may hand out
AllSnapshots == {Snapshot(p, t) : p \in Products, t \in 1..MaxVersion}

\* the pushed insert or update of a snapshot
PushOf(snap) ==
  {[type |-> "PRODUCT_UPDATE", operation |-> op, key |-> snap.productId,
    data |-> snap] : op \in {"insert", "update"}}

\* C5: for the current cache and every snapshot, delivering the snapshot as a
\* pushed insert/update and delivering it as the item of a poll result leave
\* the same cache and make the same updateProductEmbed calls
C5_PushEqualsPoll ==
  \A snap \in AllSnapshots : \A m \in PushOf(snap) :
    /\ HandleMessage(productCache, m) = ProcessProductUpdates(productCache, <<snap>>)
    /\ ClientHandleMessage(productCache, m)
         = ProcessProductUpdates(productCache, <<snap>>)

\* C6: cache writes of overlapping executions are serialized; in particular
\* no apply step lowers the cached lastUpdated of a product: an older
\* snapshot never overwrites a newer one
C6_NoOverwriteByOlder ==
  [][ApplyStep =>
       \A p \in DOMAIN productCache :
         /\ p \in DOMAIN productCache'
         /\ productCache'[p].lastUpdated >= productCache[p].lastUpdated
    ]_vars

\* every change event of the subscriber protocol
AllEvents ==
  UNION {PushOf(snap) : snap \in AllSnapshots} \cup {DeleteEvent(p) : p \in Products}

\* every result the read API may return
AllResults == {<<snap>> : snap \in AllSnapshots} \cup {FindAll(catalog)}
                \cup {r.products : r \in Run}

\* C7: applying the same event twice leaves the cache that applying it once
\* leaves, for pushed inserts, updates and deletes and for poll results,
\* from the current cache
C7_Idempotent ==
  /\ \A m \in AllEvents :
       HandleMessage(HandleMessage(productCache, m).cache, m).cache
         = HandleMessage(productCache, m).cache
  /\ \A products \in AllResults :
       ProcessProductUpdates(ProcessProductUpdates(productCache, products).cache,
                             products).cache
         = ProcessProductUpdates(productCache, products).cache

\* a poll result has just been served again: its snapshot is the one the cache
\* already holds, and it was skipped
C7_Witness ==
  /\ last.path = "poll"
  /\ last.call = NoProduct
  /\ \E i \in DOMAIN last.examined :
       /\ last.examined[i].productId \in DOMAIN productCache
       /\ productCache[last.examined[i].productId].product = last.examined[i]
       /\ last.set # last.examined[i]

\* C8: updateProductEmbed is called by an apply only when that apply changes
\* the cache: a pushed event changes it in its step, a poll item is strictly
\* newer than the entry and replaces it when the call returns
C8_EmbedOnlyOnChange ==
  [][/\ (last'.path = "push" /\ last'.call # NoProduct)
          => productCache' # productCache
     /\ (last'.path = "poll" /\ last'.call # NoProduct)
          => StrictlyNewer(productCache', last'.call)
     /\ \A r \in Run : PollResume(r) => Replaces(Head(r.products))
    ]_vars

\* C9: the end-to-end scenario.  A pushed update of a cached product with a
\* greater lastUpdated makes the cache show the pushed stock; a poll item that
\* is not newer than the entry leaves the entry; once maxReconnectAttempts
\* sockets in a row have failed the fallback polling is on; and a poll item
\* newer than the entry replaces it when its embed update returns.
C9_EndToEnd ==
  [][/\ \A i \in DOMAIN last'.examined :
          LET snap == last'.examined[i] IN
            /\ (/\ last'.path = "push"
                /\ last'.operation = "update"
                /\ snap.productId \in DOMAIN productCache
                /\ snap.lastUpdated > productCache[snap.productId].lastUpdated)
                 => getCachedProduct(productCache', snap.productId).stock = snap.stock
            /\ (/\ last'.path = "poll"
                /\ snap.productId \in DOMAIN productCache
                /\ snap.lastUpdated <= productCache[snap.productId].lastUpdated)
                 => /\ productCache'[snap.productId] = productCache[snap.productId]
                    /\ last'.call # snap
            /\ (/\ last'.path = "poll"
                /\ snap.productId \in DOMAIN productCache
                /\ snap.lastUpdated > productCache[snap.productId].lastUpdated)
                 => last'.call = snap
     /\ \A r \in Run : PollResume(r)
          => getCachedProduct(productCache', Head(r.products).productId).stock
               = Head(r.products).stock
     /\ (failedAttempts' >= maxReconnectAttempts /\ ~isConnected')
          => fallbackPollingInterval'
    ]_vars

\* C10: a reconnect timer scheduled after k sockets in a row have failed has
\* the delay k * reconnectDelay, whatever the number of events ('error',
\* 'close') that reported each failure
C10_LinearBackoff ==
  \A i \in DOMAIN reconnectTimers :
    reconnectTimers[i].delay = reconnectTimers[i].after * reconnectDelay

\* the sockets made by connect() that are connecting or open
Live == {s \in DOMAIN sockets : sockets[s] \in {"connecting", "open"}}

\* the socket this.ws refers to is open
CurrentOpen == ws # 0 /\ sockets[ws] = "open"

\* the maximum number of attempts in a row has failed, by the number of
\* sockets that failed or by the manager's own count
Exhausted ==
  \/ failedAttempts >= maxReconnectAttempts
  \/ reconnectAttempts >= maxReconnectAttempts

\* C11: a manager that has not been stopped is never left without a further
\* connect attempt: it is connected, or a socket is connecting, or an event of
\* a failed socket is still due, or a reconnect timer is pending
C11_NoDeadEnd ==
  (boot = "up" /\ ~stopped)
    => \/ isConnected
       \/ reconnectTimers # <<>>
       \/ \E s \in DOMAIN sockets : sockets[s] # "closed"

\* C12: once the maximum number of attempts in a row has failed, fallback
\* polling is on and the manager is not connected, and fallback polling stops
\* only when a socket opens (or on disconnect())
C12_DegradedUntilSuccess ==
  [][/\ (Exhausted' /\ ~stopped')
          => (fallbackPollingInterval' /\ ~isConnected')
     /\ (Exhausted /\ fallbackPollingInterval /\ ~fallbackPollingInterval')
          => (disconnect \/ \E s \in DOMAIN sockets : SocketOpen(s))
    ]_vars

\* five sockets in a row have failed and fallback polling is on
C12_Witness ==
  /\ failedAttempts >= maxReconnectAttempts
  /\ fallbackPollingInterval
  /\ ~isConnected

\* C13: the fallback poll timer runs only after the maximum number of
\* attempts in a row has failed
C13_PollingOnlyWhenDegraded == fallbackPollingInterval => Exhausted

\* C14: the manager never reports connected and fallbackMode together, and
\* the fallback timer starts no pollForUpdates while the current socket is open
C14_NoPollWhileConnected ==
  [][/\ isConnected' => ~fallbackPollingInterval'
     /\ FallbackPollFire => ~CurrentOpen
    ]_vars

\* C15: after disconnect() no socket is made, no reconnect is scheduled, and
\* neither fallback polling nor a heartbeat interval is running
C15_StopIsFinal ==
  [][stopped
       => /\ Len(sockets') = Len(sockets)
          /\ Len(reconnectTimers') <= Len(reconnectTimers)
          /\ ~fallbackPollingInterval'
          /\ heartbeatTimers' = 0
    ]_vars

\* C16: whenever a heartbeat tick would find the server late while the
\* manager is connected, the current socket is one that terminate() brings
\* down (or has brought down); the tick leaves it terminated, with the event due that makes the
\* manager leave Connected; and leaving Connected schedules a reconnect
C16_HeartbeatTimeout ==
  /\ [](HeartbeatTimeout
          => sockets[ws] \in {"open", "connecting", "terminated", "aborted"})
  /\ [][/\ (HeartbeatFire /\ HeartbeatTimeout)
             => sockets'[ws] \in {"terminated", "aborted"}
        /\ (isConnected /\ ~isConnected' /\ stopped' = stopped)
             => Len(reconnectTimers') = Len(reconnectTimers) + 1
       ]_vars

\* C17: the 'open' event resets the retry counter, the counter is zero while
\* the manager is connected, and the first failure after a success schedules
\* its reconnect after reconnectDelay, as attempt 1
C17_ResetOnOpen ==
  [][/\ \A s \in DOMAIN sockets : SocketOpen(s) => reconnectAttempts' = 0
     /\ isConnected' => reconnectAttempts' = 0
     /\ (isConnected /\ ~isConnected' /\ stopped' = stopped)
          => /\ reconnectAttempts' = 1
             /\ Len(reconnectTimers') = Len(reconnectTimers) + 1
             /\ reconnectTimers'[Len(reconnectTimers')].delay = reconnectDelay
    ]_vars

\* a connection that had opened has failed, and its reconnect is scheduled as
\* attempt 1
C17_Witness ==
  /\ subscribed # {}
  /\ ~isConnected
  /\ reconnectAttempts = 1
  /\ \E i \in DOMAIN reconnectTimers : reconnectTimers[i].delay = reconnectDelay
  /\ \E s \in subscribed : sockets[s] \in {"closing", "closed"}

\* C18: SUBSCRIBE_PRODUCTS is sent on every socket that opens
C18_SubscribeOnOpen ==
  [][\A s \in DOMAIN sockets :
       (~stopped /\ SocketOpen(s)) => s \in subscribed'
    ]_vars

\* C19: at most one socket made by connect() is connecting or open
C19_OneConnection == Cardinality(Live) <= 1

\* C20: a broadcast reaches every registered open connection of the targeted
\* role, whatever the state of the other connections
C20_FanoutComplete == fanout.targets \subseteq fanout.received

\* a broadcast to three connections, one of them broken, has reached the
\* other two
C20_Witness ==
  /\ fanout.to = "all"
  /\ Cardinality(fanout.broken) = 1
  /\ Cardinality(fanout.targets) = 2
  /\ fanout.received = fanout.targets

\* C21: broadcast(event) delivers the one serialized message to every
\* registered connection that is open, whatever its role, and to no other
\* connection.
C21_BroadcastToAll ==
  [][(fanout' # fanout /\ fanout'.to = "all") =>
       fanout'.received =
         {c \in DOMAIN clients : clients[c].state = "open"}]_vars

\* a broadcast has reached a bot and a dashboard, and has skipped a
\* registered connection whose peer is gone
C21_Witness ==
  /\ fanout.to = "all"
  /\ fanout.broken # {}
  /\ \E b, d \in fanout.received \cap DOMAIN clients :
       /\ clients[b].clientType = "bot"
       /\ clients[d].clientType = "dashboard"

\* C22: broadcastToType(role, event) delivers the message to exactly the
\* registered open connections whose role is the given role; no connection
\* of another role receives it.
C22_BroadcastToType ==
  [][(fanout' # fanout /\ fanout'.to \in ClientTypes) =>
       fanout'.received =
         {c \in DOMAIN clients : /\ clients[c].state = "open"
                                 /\ clients[c].clientType = fanout'.to}]_vars

\* a message for the bots has reached a bot while an open dashboard
\* connection is registered
C22_Witness ==
  /\ fanout.to = "bot"
  /\ fanout.received # {}
  /\ fanout.received \subseteq DOMAIN clients
  /\ \A c \in fanout.received : clients[c].clientType = "bot"
  /\ \E c \in DOMAIN clients \ fanout.received :
       clients[c].state = "open" /\ clients[c].clientType = "dashboard"

\* C23: a registered connection never sees a third probe tick without a pong:
\* at the second tick after its last pong (or after it was accepted) it is
\* terminated, and it is removed from the connection set before the next
\* tick, so a connection that stops replying stays registered for at most two
\* probe periods.
C23_ProbeRemoves ==
  \A c \in DOMAIN clients :
    /\ clients[c].unanswered <= 2
    /\ clients[c].unanswered = 2 => clients[c].state = "terminated"

\* a tick has terminated a connection that saw its second tick without a
\* pong, and has pinged another one, which stays registered
C23_Witness ==
  /\ \E c \in DOMAIN clients :
       clients[c].state = "terminated" /\ clients[c].unanswered = 2
  /\ \E c \in DOMAIN clients :
       /\ clients[c].state = "open"
       /\ ~clients[c].isAlive
       /\ clients[c].unanswered = 1

C25_CleanupIsFinal ==
  cleanedUp => (~hubHeartbeatInterval /\ clients = <<>>)

\* C26: when the change-feed subscription has failed, the watcher subscribes
\* again, so that a catalog mutation made after the error is turned into an
\* event.
C26_Resubscribes == (changeStream = "closed") ~> (changeStream = "open")

\* the fields of a product that matter to its presentation
PresentationFields == {"stock", "price", "isActive", "lastUpdated"}

\* C27: an update that changes none of the presentation-relevant fields
\* (stock, price, isActive, lastUpdated) of a product produces no
\* PRODUCT_UPDATE broadcast.
C27_OnlyRelevantChanges ==
  (/\ feed.change.operationType = "update"
   /\ feed.change.updatedFields \cap PresentationFields = {})
    => feed.published = <<>>

\* C28: every event the watcher publishes, for delete too, identifies the
\* product by its productId and never by the _id of its document.
C28_StableIdentifier ==
  \A i \in DOMAIN feed.published :
    LET m == feed.published[i] IN
      IF m.type = "PRODUCT_UPDATE"
      THEN /\ "productId" \in DOMAIN m.data
           /\ m.data.productId \in Products
      ELSE m.productId \in Products

\* the number of pollForUpdates executions that wait for their fetch
Fetches(bag) ==
  LET waiting == {r \in BagToSet(bag) : r.pc = "fetch"} IN
    IF waiting = {} THEN 0
    ELSE BagCardinality([r \in waiting |-> CopiesIn(r, bag)])

\* C29: no fetch of the read API starts less than 5000 ms after the last call
\* of pollForUpdates that fetched, whoever calls; a fetch that starts resets
\* that time; a call made within the 5000 ms returns without fetching and
\* without changing the cache.
C29_RateLimited ==
  [][/\ sinceLastPoll < PollMinInterval => Fetches(runs') <= Fetches(runs)
     /\ Fetches(runs') > Fetches(runs) => sinceLastPoll' = 0
     /\ last'.path = "limited" =>
          (sinceLastPoll < PollMinInterval /\ UNCHANGED cacheVars)]_vars

\* a call made within the interval of a poll that is still in flight has
\* returned at the rate limit: one fetch only
C29_Witness ==
  /\ last.path = "limited"
  /\ sinceLastPoll = 0
  /\ Fetches(runs) = 1
  /\ fallbackPollingInterval

\* C30: a poll cycle whose read fails is a missed cycle: the product cache is
\* left as it was, no embed is updated, the fallback timer keeps running and
\* the bot goes on.
C30_MissedCycle ==
  [][last'.path = "missed" =>
       /\ productCache' = productCache
       /\ last'.call = NoProduct /\ last'.set = NoProduct
       /\ fallbackPollingInterval' = fallbackPollingInterval
       /\ boot' = boot]_vars

\* a read of the fallback timer has failed while the store holds a product
\* the cache lacks, and the timer is still set
C30_Witness ==
  /\ last.path = "missed"
  /\ fallbackPollingInterval
  /\ \E p \in DOMAIN catalog : ~Has(productCache, p)

\* C33: a failed or lost connection is handled once: the 'close' event of a
\* socket whose 'error' event has been handled changes neither the retry
\* counter nor the reconnect timers.
C33_HandledOnce ==
  [][\A s \in DOMAIN sockets :
       (sockets[s] = "closing" /\ sockets'[s] = "closed") =>
         /\ reconnectAttempts' = reconnectAttempts
         /\ reconnectTimers' = reconnectTimers]_vars

\* socket s has its 'error' or its 'close' event in this step
Reports(s) ==
  /\ sockets'[s] # sockets[s]
  /\ sockets'[s] \in {"closing", "closed"}

\* C34: an 'error' or 'close' event of a socket that is not this.ws leaves
\* isConnected, the heartbeat interval, the fallback polling and the reconnect
\* timers of the manager as they are.
C34_SupersededIgnored ==
  [][\A s \in DOMAIN sockets :
       (Reports(s) /\ s # ws /\ ws # 0) =>
         /\ isConnected' = isConnected
         /\ heartbeatInterval' = heartbeatInterval
         /\ heartbeatTimers' = heartbeatTimers
         /\ fallbackPollingInterval' = fallbackPollingInterval
         /\ reconnectTimers' = reconnectTimers]_vars

\* C35: initializeProductCache never replaces a cached entry with a snapshot
\* whose lastUpdated is lower than the cached one.
C35_InitNeverRegresses ==
  [][(boot = "init" /\ boot' = "up") =>
       \A p \in DOMAIN productCache :
         productCache'[p].lastUpdated >= productCache[p].lastUpdated]_vars

\* a connection has been lost: some socket has had its 'error' or 'close'
Lost == \E s \in DOMAIN sockets : sockets[s] \in {"closing", "closed"}

\* C36: after the first connection loss and before disconnect(), the manager
\* is connected or the fallback poll timer is running; and while the manager
\* is connected, a socket that delivers its messages is open.
C36_DeliveryPath ==
  /\ (Lost /\ ~stopped) => (isConnected \/ fallbackPollingInterval)
  /\ (isConnected /\ ~stopped) =>
       \E s \in DOMAIN sockets : sockets[s] \in {"open", "terminated"}

\* the manager has been connected, has lost that connection and polls
C36_Witness ==
  /\ ~stopped
  /\ ~isConnected
  /\ fallbackPollingInterval
  /\ subscribed # {}
  /\ \A s \in DOMAIN sockets : sockets[s] = "closed"

\* C39: the retry counter stays within 0 .. maxReconnectAttempts, so every
\* scheduled reconnect delay is at most maxReconnectAttempts * reconnectDelay.
C39_AttemptsBounded ==
  /\ reconnectAttempts \in 0..maxReconnectAttempts
  /\ \A i \in DOMAIN reconnectTimers :
       reconnectTimers[i].delay <= maxReconnectAttempts * reconnectDelay

\* the counter is at its maximum and a reconnect with the longest delay is
\* pending
C39_Witness ==
  /\ reconnectAttempts = maxReconnectAttempts
  /\ \E i \in DOMAIN reconnectTimers :
       reconnectTimers[i].delay = maxReconnectAttempts * reconnectDelay

\* C40: at most one heartbeat interval is active, and none while the manager
\* is not connected.
C40_OneHeartbeat ==
  /\ heartbeatTimers <= 1
  /\ ~isConnected => heartbeatTimers = 0

\* C37: a connection whose pong to the previous ping has reached the hub (or
\* that was accepted since the previous tick) is not terminated by a probe
\* tick: the tick pings it and leaves it open.
C37_ResponsiveSurvives ==
  [][\A c \in DOMAIN clients :
       (/\ clients[c].unanswered = 0
        /\ Len(clients') = Len(clients)
        /\ clients'[c].unanswered = 1) =>
          /\ clients'[c].state = clients[c].state
          /\ clients'[c].state # "terminated"]_vars

\* a probe tick has pinged every registered connection and terminated none:
\* each of them had answered the ping before
C37_Witness ==
  /\ Len(clients) >= 2
  /\ hubHeartbeatInterval
  /\ \A c \in DOMAIN clients :
       /\ clients[c].state = "open"
       /\ clients[c].unanswered = 1
       /\ ~clients[c].isAlive

\* C31: a frame the 'message' handler cannot serve (text that is not JSON, an
\* unknown message type, an unknown operation) is dropped alone: the step
\* changes neither the connection state nor the cache nor the polls, and the
\* socket it came on stays open for the events that follow.
C31_DroppedAlone ==
  [][last'.path = "dropped" =>
       /\ UNCHANGED <<connVars, cacheVars, hubVars, bootVars>>
       /\ last'.call = NoProduct
       /\ last'.set = NoProduct
       /\ \E s \in DOMAIN sockets' : sockets'[s] = "open"]_vars

\* a PRODUCT_UPDATE with an unknown operation has been dropped by a connected
\* manager that has events to serve
C31_Witness ==
  /\ last.path = "dropped"
  /\ last.operation = "replace"
  /\ isConnected
  /\ ws # 0
  /\ sockets[ws] = "open"
  /\ pushed # {}

\* C32: a product change is followed by a PRODUCT_UPDATE to every open
\* connection and a PRODUCT_UPDATE_REQUIRED with the critical fields to the
\* open bot connections only; a ticket change is followed by a TICKET_UPDATE
\* to the open dashboard connections only, never to a bot.
C32_Routing ==
  LET open == {c \in DOMAIN routed.roles : routed.roles[c] # "-"}
      of(role) == {c \in DOMAIN routed.roles : routed.roles[c] = role}
  IN /\ routed.collection = "products" =>
          /\ Len(routed.sent) = 2
          /\ routed.sent[1].message = "PRODUCT_UPDATE"
          /\ routed.sent[1].received = open
          /\ routed.sent[2].message = "PRODUCT_UPDATE_REQUIRED"
          /\ routed.sent[2].criticalFields = {"stock", "price", "isActive"}
          /\ routed.sent[2].received = of("bot")
     /\ routed.collection = "tickets" =>
          /\ Len(routed.sent) = 1
          /\ routed.sent[1].message = "TICKET_UPDATE"
          /\ routed.sent[1].received = of("dashboard")
          /\ \A c \in routed.sent[1].received : routed.roles[c] # "bot"

\* a ticket change has been sent to an open dashboard while a bot is open
C32_Witness ==
  /\ routed.collection = "tickets"
  /\ routed.sent[1].received # {}
  /\ \E c \in DOMAIN routed.roles : routed.roles[c] = "bot"
  /\ \E c \in DOMAIN routed.roles : routed.roles[c] = "dashboard"

\* C38: the change feed is subscribed at most once per process, whatever the
\* interleaving of the connectToDatabase() calls, so one catalog mutation runs
\* the 'change' handler once.
C38_SubscribedOnce ==
  /\ changeStreams <= 1
  /\ emitted <= 1
====
